---- MODULE Spec2Model ----
(***************************************************************************)
(* The ARC JTAG transaction engine (JTAGARCInterface) of                    *)
(* software/glasgow/applet/jtag/arc.py as a state machine.                  *)
(*                                                                         *)
(* Every `await self.lower.<op>(...)` is one step: the step issues the      *)
(* transport operation, receives what the transport answers (a value or an  *)
(* exception) and runs the coroutine up to its next transport operation.    *)
(* pc[t] names the transport operation task t issues next.  ops[t] is the   *)
(* list of transport operations the current call of t has issued so far,    *)
(* each with what the transport answered.                                   *)
(***************************************************************************)
EXTENDS Integers, Sequences, FiniteSets, TLC

VARIABLES
    pc,        \* pc[t]: position of task t in its current call
    call,      \* call[t]: the operation and the arguments of the current call
    status,    \* status[t]: `status` of _wait_txn; outside of it, whatever was left
    ops,       \* ops[t]: transport operations issued by the current call
    overflow,  \* overflow[t]: a status poll was left out of ops[t]
    result,    \* result[t]: value returned by the call
    exc,       \* exc[t]: exception that left the call
    ir,        \* instruction last selected on the transport port, and by whom
    under,     \* under[t]: what ir was when the call of t last shifted DR
    applet     \* JTAGARCApplet.interact: its position and what it identified

vars == <<pc, call, status, ops, overflow, result, exc, ir, under, applet>>

-----------------------------------------------------------------------------
(* Bounds of the model *)

\* Status polls of one call recorded in ops[t]; later polls still happen
\* but only set overflow[t].
MaxPolls == 5

\* Register widths up to which the codec is tried on every value.
CodecWidth == 8

Tasks == {1, 2}

\* The tasks that issue calls under Spec (a single owner of the port).
Callers == {1}

-----------------------------------------------------------------------------
(* Bit sequences, least significant bit first *)

RECURSIVE ToBits(_, _)
ToBits(n, w) == IF w = 0 THEN <<>> ELSE <<n % 2>> \o ToBits(n \div 2, w - 1)

RECURSIVE FromBits(_)
FromBits(b) == IF b = <<>> THEN 0 ELSE b[1] + 2 * FromBits(Tail(b))

-----------------------------------------------------------------------------
(* Register codec (arch.jtag, arch.arc.jtag) *)

DR_ADDRESS_to_bitarray(address) == ToBits(address, 32)

DR_ADDRESS_from_bitarray(bits) == [Address |-> FromBits(bits)]

DR_DATA_to_bitarray(data) == ToBits(data, 32)

DR_DATA_from_bitarray(bits) == [Data |-> FromBits(bits)]

DR_IDCODE_from_bitarray(bits) ==
    [present |-> FromBits(SubSeq(bits, 1, 1)),
     mfg_id  |-> FromBits(SubSeq(bits, 2, 12)),
     part_id |-> FromBits(SubSeq(bits, 13, 28)),
     version |-> FromBits(SubSeq(bits, 29, 32))]

DR_IDCODE_to_bitarray(idcode) ==
    ToBits(idcode.present, 1) \o ToBits(idcode.mfg_id, 11)
        \o ToBits(idcode.part_id, 16) \o ToBits(idcode.version, 4)

DR_STATUS_from_bitarray(bits) ==
    [ST |-> bits[1], FL |-> bits[2], RD |-> bits[3], PC_SEL |-> bits[4]]

\* DR_STATUS(): every field zero.
DR_STATUS == DR_STATUS_from_bitarray(ToBits(0, 4))

-----------------------------------------------------------------------------
(* Device catalog (database.arc) *)

None == "None"

KnownDevices == {[mfg_id |-> 600, part_id |-> 2, name |-> "ARC6xx"]}

devices(mfg_id, part_id) ==
    IF \E d \in KnownDevices : d.mfg_id = mfg_id /\ d.part_id = part_id
    THEN (CHOOSE d \in KnownDevices :
              d.mfg_id = mfg_id /\ d.part_id = part_id).name
    ELSE None

-----------------------------------------------------------------------------
(* Inputs of the calls and answers of the transport *)

Spaces == {"memory", "core", "aux"}

\* The space arguments tried: the three spaces and one that is none of them.
SpaceArgs == Spaces \cup {"io"}

AddressArgs == {305419896, 2147483647}

DataArgs == {1, 2023406814}

IdcodeAnswers ==
    {DR_IDCODE_to_bitarray([present |-> 1, mfg_id |-> 600, part_id |-> 2, version |-> 1]),
     DR_IDCODE_to_bitarray([present |-> 1, mfg_id |-> 600, part_id |-> 3, version |-> 0]),
     DR_IDCODE_to_bitarray([present |-> 1, mfg_id |-> 601, part_id |-> 2, version |-> 7])}

\* What a 32-bit read_dr may answer.
Answers32 == {ToBits(v, 32) : v \in {0, 19088743}} \cup IdcodeAnswers

\* What a 4-bit read_dr may answer, as <<ST, FL, RD, PC_SEL>>.
Answers4 ==
    {<<0, 0, 0, 0>>, <<1, 0, 0, 0>>, <<0, 0, 1, 0>>, <<1, 0, 1, 1>>,
     <<0, 1, 0, 0>>, <<0, 1, 1, 0>>}

NoError == "-"

\* Exceptions a transport operation may raise (an error, a cancellation).
TransportErrors == {"TransportError", "CancelledError"}

Outcomes == {NoError} \cup TransportErrors

-----------------------------------------------------------------------------
(* Records of the transport operations *)

Op(name, code, bits, width, ret, err) ==
    [op |-> name, code |-> code, bits |-> bits, width |-> width,
     ret |-> ret, err |-> err]

write_ir(code, err)    == Op("write_ir", code, <<>>, 0, <<>>, err)
write_dr(bits, err)    == Op("write_dr", "-", bits, Len(bits), <<>>, err)
write_dr_const(c, err) == Op("write_dr", c, <<>>, 0, <<>>, err)
read_dr(width, ret, err) ==
    Op("read_dr", "-", <<>>, width, IF err = NoError THEN ret ELSE <<>>, err)

NoResult == [tag |-> "none", Data |-> 0, idcode |-> DR_IDCODE_from_bitarray(ToBits(0, 32)),
             device |-> None]

NoCall == [op |-> "-", address |-> 0, data |-> 0, space |-> "-",
           dr_txn_command |-> "-"]

\* The port before any instruction was selected.
NoIr == [code |-> "-", by |-> 0]

\* interact() not running (the engine is called by other code).
NoApplet == [state |-> "-", operation |-> "-", device |-> None,
             idcode |-> <<>>, error |-> NoError]

-----------------------------------------------------------------------------
Init ==
    /\ pc = [t \in Tasks |-> "idle"]
    /\ call = [t \in Tasks |-> NoCall]
    /\ status = [t \in Tasks |-> DR_STATUS]
    /\ ops = [t \in Tasks |-> <<>>]
    /\ overflow = [t \in Tasks |-> FALSE]
    /\ result = [t \in Tasks |-> NoResult]
    /\ exc = [t \in Tasks |-> NoError]
    /\ ir = NoIr
    /\ under = [t \in Tasks |-> NoIr]
    /\ applet = NoApplet

-----------------------------------------------------------------------------
(* Helpers *)

IsPoll(e) == e.op = "read_dr" /\ e.width = 4

NPolls(log) == Cardinality({i \in DOMAIN log : IsPoll(log[i])})

\* Mutant: a call takes the port and waits while another call is in flight.
CanEnter_locked(t) ==
    /\ pc[t] \in {"idle", "done"}
    /\ \A u \in Tasks \ {t} : pc[u] \in {"idle", "done"}

\* `async def` without any lock: a caller that is not inside a call may
\* start one, whatever the other callers are doing.
CanEnter(t) == pc[t] \in {"idle", "done"}

\* A call starts: the record of the previous call is gone.  Nothing is done
\* to status: it is a local of _wait_txn, assigned there before it is read.
Enter(t, c, first, e) ==
    /\ call' = [call EXCEPT ![t] = c]
    /\ pc' = [pc EXCEPT ![t] = first]
    /\ ops' = [ops EXCEPT ![t] = <<>>]
    /\ overflow' = [overflow EXCEPT ![t] = FALSE]
    /\ result' = [result EXCEPT ![t] = NoResult]
    /\ exc' = [exc EXCEPT ![t] = e]
    /\ under' = [under EXCEPT ![t] = NoIr]
    /\ UNCHANGED <<status, ir, applet>>

\* An exception e leaves the coroutine: no handler anywhere in the class.
Propagate(t, e) ==
    /\ pc' = [pc EXCEPT ![t] = "done"]
    /\ exc' = [exc EXCEPT ![t] = e]
    /\ UNCHANGED <<call, result>>

\* await self.lower.write_ir(code), then on to position next.
lower_write_ir(t, code, next) ==
    \E err \in Outcomes :
        /\ ops' = [ops EXCEPT ![t] = Append(@, write_ir(code, err))]
        /\ UNCHANGED <<overflow, under, applet>>
        /\ IF err = NoError
           THEN /\ ir' = [code |-> code, by |-> t]
                /\ pc' = [pc EXCEPT ![t] = next]
                /\ UNCHANGED <<call, status, result, exc>>
           ELSE /\ ir' \in {ir, [code |-> code, by |-> t]}
                /\ Propagate(t, err)
                /\ UNCHANGED status

\* Mutant: a write_dr that raised is tried again.
lower_write_dr_retries(t, entry, next) ==
    \E err \in Outcomes :
        /\ ops' = [ops EXCEPT ![t] = Append(@, [entry EXCEPT !.err = err])]
        /\ Len(ops[t]) < 12
        /\ pc' = [pc EXCEPT ![t] = IF err = NoError THEN next ELSE pc[t]]
        /\ under' = [under EXCEPT ![t] = ir]
        /\ UNCHANGED <<call, status, overflow, result, exc, ir, applet>>

\* await self.lower.write_dr(entry), then on to position next.
lower_write_dr(t, entry, next) ==
    \E err \in Outcomes :
        /\ ops' = [ops EXCEPT ![t] = Append(@, [entry EXCEPT !.err = err])]
        /\ under' = [under EXCEPT ![t] = ir]
        /\ UNCHANGED <<overflow, ir, applet>>
        /\ IF err = NoError
           THEN /\ pc' = [pc EXCEPT ![t] = next]
                /\ UNCHANGED <<call, status, result, exc>>
           ELSE Propagate(t, err) /\ UNCHANGED status

-----------------------------------------------------------------------------
(* identify *)

identify(t) ==
    /\ CanEnter(t)
    /\ Enter(t, [NoCall EXCEPT !.op = "identify"], "identify_write_ir", NoError)

\* Mutant: identify waits for a transaction like read and write do.
identify_write_ir_then_waits(t) ==
    /\ pc[t] = "identify_write_ir"
    /\ lower_write_ir(t, "IR_IDCODE", "wait_txn_write_ir")

identify_write_ir(t) ==
    /\ pc[t] = "identify_write_ir"
    /\ lower_write_ir(t, "IR_IDCODE", "identify_read_dr")

\* Mutant: the catalog is asked for (part_id, mfg_id).
identify_return_swapped_key(idcode_bits) ==
    LET idcode == DR_IDCODE_from_bitarray(idcode_bits)
        device == devices(idcode.part_id, idcode.mfg_id)
    IN  [NoResult EXCEPT !.tag = "identify", !.idcode = idcode, !.device = device]

\* Lines 28-32: what identify returns for the bits read.
identify_return(idcode_bits) ==
    LET idcode == DR_IDCODE_from_bitarray(idcode_bits)
        device == devices(idcode.mfg_id, idcode.part_id)
    IN  [NoResult EXCEPT !.tag = "identify", !.idcode = idcode, !.device = device]

identify_read_dr(t) ==
    /\ pc[t] = "identify_read_dr"
    /\ \E err \in Outcomes, idcode_bits \in Answers32 :
        /\ ops' = [ops EXCEPT ![t] = Append(@, read_dr(32, idcode_bits, err))]
        /\ under' = [under EXCEPT ![t] = ir]
        /\ UNCHANGED <<overflow, ir, applet>>
        /\ IF err = NoError
           THEN /\ result' = [result EXCEPT ![t] = identify_return(idcode_bits)]
                /\ pc' = [pc EXCEPT ![t] = "done"]
                /\ UNCHANGED <<call, status, exc>>
           ELSE Propagate(t, err) /\ UNCHANGED status

-----------------------------------------------------------------------------
(* _wait_txn *)

\* Mutant: the loop tests ST next to RD and leaves on either.
wait_txn_loop_tests_ST(op, st) ==
    IF st.RD = 0 /\ st.ST = 0 THEN "wait_txn_read_dr"
    ELSE IF op = "read" THEN "read_write_ir_data" ELSE "done"

\* Mutant: the loop never sees RD: it tests ST.
wait_txn_loop_ST_for_RD(op, st) ==
    IF st.ST = 0 THEN "wait_txn_read_dr"
    ELSE IF op = "read" THEN "read_write_ir_data" ELSE "done"

\* `while not status.RD` (line 37), and where the caller goes on when the
\* loop is left: read goes on to line 61, write returns.
wait_txn_loop(op, st) ==
    IF st.RD = 0 THEN "wait_txn_read_dr"
    ELSE IF op = "read" THEN "read_write_ir_data" ELSE "done"

\* Mutant: RD is tested before FL, so a ready answer never fails.
wait_txn_after_poll_RD_first(op, st) ==
    IF st.RD # 0 THEN wait_txn_loop(op, st)
    ELSE IF st.FL # 0 THEN "raise" ELSE "wait_txn_read_dr"

\* Mutant: lines 41-42 left out, FL is ignored.
wait_txn_after_poll_ignores_FL(op, st) == wait_txn_loop(op, st)

\* Lines 39-42 and the loop test after them: what follows a poll that
\* answered st.
wait_txn_after_poll(op, st) ==
    IF st.FL # 0 THEN "raise" ELSE wait_txn_loop(op, st)

TransactionFailed == "GlasgowAppletError: transaction failed"

\* Mutant: the loop of lines 37-40 is not entered before RD is tested.
wait_txn_write_ir_skips_loop(t) ==
    /\ pc[t] = "wait_txn_write_ir"
    /\ \E err \in Outcomes :
        /\ ops' = [ops EXCEPT ![t] = Append(@, write_ir("IR_STATUS", err))]
        /\ UNCHANGED <<overflow, under, applet>>
        /\ IF err = NoError
           THEN /\ ir' = [code |-> "IR_STATUS", by |-> t]
                /\ status' = [status EXCEPT ![t] = [DR_STATUS EXCEPT !.RD = 1]]
                /\ pc' = [pc EXCEPT ![t] =
                            wait_txn_loop(call[t].op, [DR_STATUS EXCEPT !.RD = 1])]
                /\ UNCHANGED <<call, result, exc>>
           ELSE /\ ir' \in {ir, [code |-> "IR_STATUS", by |-> t]}
                /\ Propagate(t, err)
                /\ UNCHANGED status

\* Mutant: line 36 left out, status is an attribute that outlives the call.
wait_txn_write_ir_keeps_status(t) ==
    /\ pc[t] = "wait_txn_write_ir"
    /\ \E err \in Outcomes :
        /\ ops' = [ops EXCEPT ![t] = Append(@, write_ir("IR_STATUS", err))]
        /\ UNCHANGED <<overflow, under, applet, status>>
        /\ IF err = NoError
           THEN /\ ir' = [code |-> "IR_STATUS", by |-> t]
                /\ pc' = [pc EXCEPT ![t] = wait_txn_loop(call[t].op, status[t])]
                /\ UNCHANGED <<call, result, exc>>
           ELSE /\ ir' \in {ir, [code |-> "IR_STATUS", by |-> t]}
                /\ Propagate(t, err)

wait_txn_write_ir(t) ==
    /\ pc[t] = "wait_txn_write_ir"
    /\ \E err \in Outcomes :
        /\ ops' = [ops EXCEPT ![t] = Append(@, write_ir("IR_STATUS", err))]
        /\ UNCHANGED <<overflow, under, applet>>
        /\ IF err = NoError
           THEN /\ ir' = [code |-> "IR_STATUS", by |-> t]
                /\ status' = [status EXCEPT ![t] = DR_STATUS]
                /\ pc' = [pc EXCEPT ![t] = wait_txn_loop(call[t].op, DR_STATUS)]
                /\ UNCHANGED <<call, result, exc>>
           ELSE /\ ir' \in {ir, [code |-> "IR_STATUS", by |-> t]}
                /\ Propagate(t, err)
                /\ UNCHANGED status

\* Mutant: IR_STATUS is selected again before every poll.
wait_txn_poll_reselects(t, err, status_bits) ==
    /\ pc[t] = "wait_txn_read_dr"
    /\ IF NPolls(ops[t]) < MaxPolls
       THEN /\ ops' = [ops EXCEPT ![t] = @ \o <<write_ir("IR_STATUS", NoError),
                                                 read_dr(4, status_bits, err)>>]
            /\ UNCHANGED overflow
       ELSE /\ overflow' = [overflow EXCEPT ![t] = TRUE]
            /\ UNCHANGED ops
    /\ ir' = [code |-> "IR_STATUS", by |-> t]
    /\ under' = [under EXCEPT ![t] = ir']
    /\ UNCHANGED applet
    /\ IF err = NoError
       THEN LET st == DR_STATUS_from_bitarray(status_bits)
                next == wait_txn_after_poll(call[t].op, st)
            IN  /\ status' = [status EXCEPT ![t] = st]
                /\ IF next = "raise"
                   THEN Propagate(t, TransactionFailed)
                   ELSE /\ pc' = [pc EXCEPT ![t] = next]
                        /\ UNCHANGED <<call, result, exc>>
       ELSE Propagate(t, err) /\ UNCHANGED status

wait_txn_poll(t, err, status_bits) ==
    /\ pc[t] = "wait_txn_read_dr"
    /\ IF NPolls(ops[t]) < MaxPolls
       THEN /\ ops' = [ops EXCEPT ![t] = Append(@, read_dr(4, status_bits, err))]
            /\ UNCHANGED overflow
       ELSE /\ overflow' = [overflow EXCEPT ![t] = TRUE]
            /\ UNCHANGED ops
    /\ under' = [under EXCEPT ![t] = ir]
    /\ UNCHANGED <<ir, applet>>
    /\ IF err = NoError
       THEN LET st == DR_STATUS_from_bitarray(status_bits)
                next == wait_txn_after_poll(call[t].op, st)
            IN  /\ status' = [status EXCEPT ![t] = st]
                /\ IF next = "raise"
                   THEN Propagate(t, TransactionFailed)
                   ELSE /\ pc' = [pc EXCEPT ![t] = next]
                        /\ UNCHANGED <<call, result, exc>>
       ELSE Propagate(t, err) /\ UNCHANGED status

wait_txn_read_dr(t) ==
    \E err \in Outcomes, status_bits \in Answers4 : wait_txn_poll(t, err, status_bits)

-----------------------------------------------------------------------------
(* read *)

AssertFalse == "assert False"

\* Mutant: the last branch taken for every other space, no assertion.
read_dr_txn_command_else_aux(space) ==
    IF space = "memory" THEN "DR_TXN_COMMAND_READ_MEMORY"
    ELSE IF space = "core" THEN "DR_TXN_COMMAND_READ_CORE"
    ELSE "DR_TXN_COMMAND_READ_AUX"

read_dr_txn_command(space) ==
    IF space = "memory" THEN "DR_TXN_COMMAND_READ_MEMORY"
    ELSE IF space = "core" THEN "DR_TXN_COMMAND_READ_CORE"
    ELSE IF space = "aux" THEN "DR_TXN_COMMAND_READ_AUX"
    ELSE AssertFalse

read(t, address, space) ==
    LET dr_txn_command == read_dr_txn_command(space)
        c == [op |-> "read", address |-> address, data |-> 0, space |-> space,
              dr_txn_command |-> dr_txn_command]
    IN  /\ CanEnter(t)
        /\ IF dr_txn_command = AssertFalse
           THEN Enter(t, c, "done", "AssertionError")
           ELSE Enter(t, c, "read_write_ir_address", NoError)

read_write_ir_address(t) ==
    /\ pc[t] = "read_write_ir_address"
    /\ lower_write_ir(t, "IR_ADDRESS", "read_write_dr_address")

read_write_dr_address(t) ==
    /\ pc[t] = "read_write_dr_address"
    /\ lower_write_dr(t, write_dr(DR_ADDRESS_to_bitarray(call[t].address), NoError),
                      "read_write_ir_txn_command")

read_write_ir_txn_command(t) ==
    /\ pc[t] = "read_write_ir_txn_command"
    /\ lower_write_ir(t, "IR_TXN_COMMAND", "read_write_dr_txn_command")

\* Mutant: the command is followed by the polls at once, line 35 is skipped.
read_write_dr_txn_command_then_polls(t) ==
    /\ pc[t] = "read_write_dr_txn_command"
    /\ lower_write_dr(t, write_dr_const(call[t].dr_txn_command, NoError),
                      "wait_txn_read_dr")

read_write_dr_txn_command(t) ==
    /\ pc[t] = "read_write_dr_txn_command"
    /\ lower_write_dr(t, write_dr_const(call[t].dr_txn_command, NoError),
                      "wait_txn_write_ir")

\* Mutant: line 61 left out, the DATA register is read with IR=STATUS selected.
read_write_ir_data_skipped(t) ==
    /\ pc[t] = "read_write_ir_data"
    /\ pc' = [pc EXCEPT ![t] = "read_read_dr_data"]
    /\ UNCHANGED <<call, status, ops, overflow, result, exc, ir, under, applet>>

read_write_ir_data(t) ==
    /\ pc[t] = "read_write_ir_data"
    /\ lower_write_ir(t, "IR_DATA", "read_read_dr_data")

\* Mutant: the address is returned instead of the data read.
read_return_address(t, dr_data_bits) == call[t].address

\* Lines 63-65: what read returns for the bits read.
read_return(t, dr_data_bits) ==
    LET dr_data == DR_DATA_from_bitarray(dr_data_bits)
    IN  dr_data.Data

read_read_dr_data(t) ==
    /\ pc[t] = "read_read_dr_data"
    /\ \E err \in Outcomes, dr_data_bits \in Answers32 :
        /\ ops' = [ops EXCEPT ![t] = Append(@, read_dr(32, dr_data_bits, err))]
        /\ under' = [under EXCEPT ![t] = ir]
        /\ UNCHANGED <<overflow, ir, applet>>
        /\ IF err = NoError
           THEN /\ result' = [result EXCEPT ![t] =
                        [NoResult EXCEPT !.tag = "read",
                                         !.Data = read_return(t, dr_data_bits)]]
                /\ pc' = [pc EXCEPT ![t] = "done"]
                /\ UNCHANGED <<call, status, exc>>
           ELSE Propagate(t, err) /\ UNCHANGED status

-----------------------------------------------------------------------------
(* write *)

\* Mutant: the core branch copied from read() and not changed.
write_dr_txn_command_read_core(space) ==
    IF space = "memory" THEN "DR_TXN_COMMAND_WRITE_MEMORY"
    ELSE IF space = "core" THEN "DR_TXN_COMMAND_READ_CORE"
    ELSE IF space = "aux" THEN "DR_TXN_COMMAND_WRITE_AUX"
    ELSE AssertFalse

write_dr_txn_command(space) ==
    IF space = "memory" THEN "DR_TXN_COMMAND_WRITE_MEMORY"
    ELSE IF space = "core" THEN "DR_TXN_COMMAND_WRITE_CORE"
    ELSE IF space = "aux" THEN "DR_TXN_COMMAND_WRITE_AUX"
    ELSE AssertFalse

write(t, address, data, space) ==
    LET dr_txn_command == write_dr_txn_command(space)
        c == [op |-> "write", address |-> address, data |-> data, space |-> space,
              dr_txn_command |-> dr_txn_command]
    IN  /\ CanEnter(t)
        /\ IF dr_txn_command = AssertFalse
           THEN Enter(t, c, "done", "AssertionError")
           ELSE Enter(t, c, "write_write_ir_address", NoError)

write_write_ir_address(t) ==
    /\ pc[t] = "write_write_ir_address"
    /\ lower_write_ir(t, "IR_ADDRESS", "write_write_dr_address")

\* Mutant: lines 81-83 left out, the command is issued without the data.
write_write_dr_address_no_data(t) ==
    /\ pc[t] = "write_write_dr_address"
    /\ lower_write_dr(t, write_dr(DR_ADDRESS_to_bitarray(call[t].address), NoError),
                      "write_write_ir_txn_command")

write_write_dr_address(t) ==
    /\ pc[t] = "write_write_dr_address"
    /\ lower_write_dr(t, write_dr(DR_ADDRESS_to_bitarray(call[t].address), NoError),
                      "write_write_ir_data")

write_write_ir_data(t) ==
    /\ pc[t] = "write_write_ir_data"
    /\ lower_write_ir(t, "IR_DATA", "write_write_dr_data")

\* Mutant: line 82 builds the data register from the address.
write_write_dr_data_from_address(t) ==
    /\ pc[t] = "write_write_dr_data"
    /\ lower_write_dr(t, write_dr(DR_DATA_to_bitarray(call[t].address), NoError),
                      "write_write_ir_txn_command")

write_write_dr_data(t) ==
    /\ pc[t] = "write_write_dr_data"
    /\ lower_write_dr(t, write_dr(DR_DATA_to_bitarray(call[t].data), NoError),
                      "write_write_ir_txn_command")

write_write_ir_txn_command(t) ==
    /\ pc[t] = "write_write_ir_txn_command"
    /\ lower_write_ir(t, "IR_TXN_COMMAND", "write_write_dr_txn_command")

write_write_dr_txn_command(t) ==
    /\ pc[t] = "write_write_dr_txn_command"
    /\ lower_write_dr(t, write_dr_const(call[t].dr_txn_command, NoError),
                      "wait_txn_write_ir")

-----------------------------------------------------------------------------
(* The specification: one task owns the port and calls the engine *)

Step(t) ==
    \/ identify_write_ir(t)
    \/ identify_read_dr(t)
    \/ read_write_ir_address(t)
    \/ read_write_dr_address(t)
    \/ read_write_ir_txn_command(t)
    \/ read_write_dr_txn_command(t)
    \/ read_write_ir_data(t)
    \/ read_read_dr_data(t)
    \/ write_write_ir_address(t)
    \/ write_write_dr_address(t)
    \/ write_write_ir_data(t)
    \/ write_write_dr_data(t)
    \/ write_write_ir_txn_command(t)
    \/ write_write_dr_txn_command(t)
    \/ wait_txn_write_ir(t)
    \/ wait_txn_read_dr(t)

Next ==
    \E t \in Callers :
        \/ identify(t)
        \/ \E address \in AddressArgs, space \in SpaceArgs : read(t, address, space)
        \/ \E address \in AddressArgs, data \in DataArgs, space \in SpaceArgs :
               write(t, address, data, space)
        \/ Step(t)

Spec == Init /\ [][Next]_vars

-----------------------------------------------------------------------------
(* Two callers on the same port *)

\* Status polls a call makes when two callers share the port.
ConcPolls == 1

ConcAnswers ==
    {<<>>, <<0, 0, 0, 0>>, <<0, 0, 1, 0>>, <<0, 1, 0, 0>>, ToBits(19088743, 32)}

\* What the transport is taken to do while two callers share the port: it
\* raises nothing and answers from ConcAnswers, a terminal status by poll
\* ConcPolls at the latest.
ConcLimit ==
    \A t \in Tasks :
        /\ ~overflow[t]
        /\ exc[t] \notin TransportErrors
        /\ NPolls(ops[t]) <= ConcPolls
        /\ \A i \in DOMAIN ops[t] : ops[t][i].ret \in ConcAnswers

NextConc ==
    \E t \in Tasks :
        \/ identify(t) /\ ConcLimit'
        \/ read(t, 305419896, "memory") /\ ConcLimit'
        \/ write(t, 2147483647, 1, "core") /\ ConcLimit'
        \/ Step(t) /\ ConcLimit'

SpecConc == Init /\ [][NextConc]_vars

-----------------------------------------------------------------------------
(* JTAGARCApplet.interact on top of the engine *)

engine == <<pc, call, status, ops, overflow, result, exc, ir, under>>

\* args.operation: the one subcommand, or none given.
Operations == {"repl", "none"}

UnknownDevice == "GlasgowAppletError: cannot operate on unknown device IDCODE=%08x"

\* interact() is entered with the interface run() has just built.
interact(operation) ==
    /\ applet.state = "-"
    /\ \A t \in Tasks : pc[t] = "idle"
    /\ applet' = [NoApplet EXCEPT !.state = "identify", !.operation = operation]
    /\ UNCHANGED engine

\* Line 131, the call.
interact_identify ==
    /\ applet.state = "identify" /\ pc[1] = "idle"
    /\ identify(1)

\* Line 131, while identify() is awaited.
interact_identify_step ==
    /\ applet.state = "identify"
    /\ Step(1)

\* Mutant: lines 132-134 left out.
interact_identified_unchecked(idcode, device) ==
    IF applet.operation = "repl"
    THEN [applet EXCEPT !.state = "repl", !.device = device]
    ELSE [applet EXCEPT !.state = "returned", !.device = device]

\* Lines 132-139: what interact() does with the pair identify() returned.
\* The IDCODE in the message is idcode.to_int(), kept as its 32 bits.
interact_identified(idcode, device) ==
    IF device = None
    THEN [applet EXCEPT !.state = "raised", !.error = UnknownDevice,
                        !.idcode = DR_IDCODE_to_bitarray(idcode)]
    ELSE IF applet.operation = "repl"
    THEN [applet EXCEPT !.state = "repl", !.device = device]
    ELSE [applet EXCEPT !.state = "returned", !.device = device]

\* Line 131, identify() is over: it returned a pair or its exception goes on
\* through interact().
interact_identify_done ==
    /\ applet.state = "identify" /\ pc[1] = "done"
    /\ applet' = IF exc[1] # NoError
                 THEN [applet EXCEPT !.state = "raised", !.error = exc[1]]
                 ELSE interact_identified(result[1].idcode, result[1].device)
    /\ UNCHANGED engine

\* Line 139: the console hands arc_iface to the user, who calls it.
repl_call ==
    /\ applet.state = "repl"
    /\ \/ identify(1)
       \/ \E address \in AddressArgs, space \in SpaceArgs : read(1, address, space)
       \/ \E address \in AddressArgs, data \in DataArgs, space \in SpaceArgs :
              write(1, address, data, space)

repl_step ==
    /\ applet.state = "repl"
    /\ Step(1)

\* The user leaves the console and interact() returns.
repl_exit ==
    /\ applet.state = "repl" /\ pc[1] \in {"idle", "done"}
    /\ applet' = [applet EXCEPT !.state = "returned"]
    /\ UNCHANGED engine

NextApplet ==
    \/ \E operation \in Operations : interact(operation)
    \/ interact_identify
    \/ interact_identify_step
    \/ interact_identify_done
    \/ repl_call
    \/ repl_step
    \/ repl_exit

SpecApplet == Init /\ [][NextApplet]_vars

\* Answers of a status poll that end the polling.
TerminalAnswers == {b \in Answers4 : b[3] = 1 \/ b[2] = 1}

TerminalPoll(t) == \E b \in TerminalAnswers : wait_txn_poll(t, NoError, b)

\* Every transport operation returns (the coroutine is resumed), and a
\* transport that is polled for ever eventually answers RD=1 or FL=1.
Fairness == \A t \in Callers : WF_vars(Step(t)) /\ WF_vars(TerminalPoll(t))

SpecLive == Init /\ [][Next]_vars /\ Fairness

\* Only the first half of Fairness: the transport may answer RD=0, FL=0 for ever.
SpecSpin == Init /\ [][Next]_vars /\ \A t \in Callers : WF_vars(Step(t))

-----------------------------------------------------------------------------
(* Vocabulary of the properties *)

Returned(t)  == pc[t] = "done" /\ exc[t] = NoError
Ok(e)        == e.err = NoError
NotReady(e)  == IsPoll(e) /\ Ok(e) /\ e.ret[3] = 0 /\ e.ret[2] = 0
Ready(e)     == IsPoll(e) /\ Ok(e) /\ e.ret[3] = 1 /\ e.ret[2] = 0
Failed(e)    == IsPoll(e) /\ Ok(e) /\ e.ret[2] = 1
PollIndexes(log) == {i \in DOMAIN log : IsPoll(log[i])}
Last(log) == log[Len(log)]

\* The opcode each (operation, space) pair stands for.
OpcodeTable(op, space) ==
    CASE op = "read"  /\ space = "memory" -> "DR_TXN_COMMAND_READ_MEMORY"
      [] op = "read"  /\ space = "core"   -> "DR_TXN_COMMAND_READ_CORE"
      [] op = "read"  /\ space = "aux"    -> "DR_TXN_COMMAND_READ_AUX"
      [] op = "write" /\ space = "memory" -> "DR_TXN_COMMAND_WRITE_MEMORY"
      [] op = "write" /\ space = "core"   -> "DR_TXN_COMMAND_WRITE_CORE"
      [] op = "write" /\ space = "aux"    -> "DR_TXN_COMMAND_WRITE_AUX"
      [] OTHER -> "-"

ReadHead(c) ==
    <<write_ir("IR_ADDRESS", NoError),
      write_dr(DR_ADDRESS_to_bitarray(c.address), NoError),
      write_ir("IR_TXN_COMMAND", NoError),
      write_dr_const(OpcodeTable("read", c.space), NoError),
      write_ir("IR_STATUS", NoError)>>

WriteHead(c) ==
    <<write_ir("IR_ADDRESS", NoError),
      write_dr(DR_ADDRESS_to_bitarray(c.address), NoError),
      write_ir("IR_DATA", NoError),
      write_dr(DR_DATA_to_bitarray(c.data), NoError),
      write_ir("IR_TXN_COMMAND", NoError),
      write_dr_const(OpcodeTable("write", c.space), NoError),
      write_ir("IR_STATUS", NoError)>>

-----------------------------------------------------------------------------
\* C1: a read() that returned (its polling ended with RD=1, FL=0) has issued
\* exactly: IR=ADDRESS, DR write of the encoded address, IR=TXN_COMMAND, DR
\* write of the read opcode of its space, IR=STATUS, one or more 4-bit DR
\* reads of which the last answered RD=1, FL=0, IR=DATA, one 32-bit DR read.
C1_ReadSequence ==
    \A t \in Tasks :
        (call[t].op = "read" /\ Returned(t) /\ ~overflow[t]) =>
            LET log == ops[t]
                n == Len(log)
            IN  /\ n >= 8
                /\ SubSeq(log, 1, 5) = ReadHead(call[t])
                /\ \A i \in 6..(n - 2) : IsPoll(log[i]) /\ Ok(log[i])
                /\ Ready(log[n - 2])
                /\ log[n - 1] = write_ir("IR_DATA", NoError)
                /\ log[n].op = "read_dr" /\ log[n].width = 32 /\ Ok(log[n])

C1_Witness ==
    /\ call[1].op = "read" /\ call[1].space = "core" /\ call[1].address = 305419896
    /\ Returned(1) /\ ~overflow[1]
    /\ Len(ops[1]) = 10

\* C2: a write() that returned has issued exactly: IR=ADDRESS, DR write of
\* the address, IR=DATA, DR write of the data, IR=TXN_COMMAND, DR write of
\* the write opcode of its space, IR=STATUS, one or more STATUS polls of which
\* the last answered RD=1, FL=0, and nothing after that poll; it returns no
\* value.
C2_WriteSequence ==
    \A t \in Tasks :
        (call[t].op = "write" /\ Returned(t) /\ ~overflow[t]) =>
            LET log == ops[t]
                n == Len(log)
            IN  /\ n >= 8
                /\ SubSeq(log, 1, 7) = WriteHead(call[t])
                /\ \A i \in 8..n : IsPoll(log[i]) /\ Ok(log[i])
                /\ Ready(log[n])
                /\ result[t] = NoResult

C2_Witness ==
    /\ call[1].op = "write" /\ call[1].space = "aux" /\ call[1].data = 2023406814
    /\ Returned(1) /\ ~overflow[1]
    /\ Len(ops[1]) = 9

\* C3: a status poll that answered FL=1 is the last transport operation of
\* its call: the call has ended with the transaction-failure error and has
\* returned no value (no IR=DATA, no DATA read after it).
C3_FailStops ==
    \A t \in Tasks :
        \A i \in DOMAIN ops[t] :
            Failed(ops[t][i]) =>
                /\ i = Len(ops[t])
                /\ pc[t] = "done"
                /\ exc[t] = TransactionFailed
                /\ result[t] = NoResult

\* FL=1 on the third poll of a read.
C3_Witness ==
    /\ call[1].op = "read"
    /\ Len(ops[1]) = 8
    /\ Failed(ops[1][8])
    /\ NotReady(ops[1][7])

\* C4: the value a read() returns is the Data field decoded from the answer
\* of the one 32-bit DR read of the call, whatever the address, the space
\* and the polls before it.
C4_ReadValue ==
    \A t \in Tasks :
        (call[t].op = "read" /\ Returned(t)) =>
            /\ result[t].tag = "read"
            /\ Cardinality({i \in DOMAIN ops[t] :
                    ops[t][i].op = "read_dr" /\ ops[t][i].width = 32}) = 1
            /\ Last(ops[t]).op = "read_dr" /\ Last(ops[t]).width = 32
            /\ result[t].Data = DR_DATA_from_bitarray(Last(ops[t]).ret).Data

C4_Witness ==
    /\ call[1].op = "read" /\ call[1].address = 2147483647 /\ Returned(1)
    /\ result[1].Data = 19088743
    /\ NPolls(ops[1]) = 3

\* C5: polling goes on for as long as the answers are RD=0, FL=0: after k such
\* answers the call is still polling, whatever k, and after k of them and then
\* an answer RD=1, FL=0 the call has made exactly k + 1 STATUS reads and goes
\* on to succeed (write returns, read enters its DATA phase).
C5_PollsUntilReady ==
    \A t \in Tasks :
        (call[t].op \in {"read", "write"} /\ ~overflow[t] /\ PollIndexes(ops[t]) # {}) =>
            LET log == ops[t]
                P == PollIndexes(log)
                last == CHOOSE i \in P : \A j \in P : j <= i
                k == Cardinality({i \in P : NotReady(log[i])})
            IN  /\ \A i \in P \ {last} : NotReady(log[i])
                /\ NotReady(log[last]) => pc[t] = "wait_txn_read_dr"
                /\ Ready(log[last]) =>
                        /\ Cardinality(P) = k + 1
                        /\ exc[t] # TransactionFailed
                        /\ IF call[t].op = "write"
                           THEN Returned(t)
                           ELSE pc[t] \in {"read_write_ir_data", "read_read_dr_data", "done"}

\* Four answers RD=0, FL=0 and then RD=1, FL=0: the write has returned.
C5_Witness ==
    /\ call[1].op = "write" /\ Returned(1) /\ ~overflow[1]
    /\ NPolls(ops[1]) = 5
    /\ Cardinality({i \in DOMAIN ops[1] : NotReady(ops[1][i])}) = 4

\* C6: a call in flight ends (returns or raises) when every transport
\* operation returns and a polled transport eventually answers RD=1 or FL=1;
\* and the polling loop is left in no other way than by an answer with RD=1
\* or FL=1 or by an exception of the transport: there is no iteration bound
\* and no timeout, an answer RD=0, FL=0 is always followed by another poll.
C6_InFlight(t) == pc[t] \notin {"idle", "done"}

C6_LeavesPolling(t) ==
    (pc[t] = "wait_txn_read_dr" /\ pc'[t] # "wait_txn_read_dr") =>
        \/ status'[t].RD = 1
        \/ status'[t].FL = 1
        \/ exc'[t] \in TransportErrors

C6_Termination ==
    /\ \A t \in Callers : C6_InFlight(t) ~> (pc[t] = "done")
    /\ [][\A t \in Callers : C6_LeavesPolling(t)]_vars

\* A write that polled more often than the log records, and returned.
C6_Witness ==
    /\ call[1].op = "write" /\ overflow[1] /\ Returned(1)

\* C7: identify() returns the IDCODE decoded from the 32 bits read, with the
\* catalog entry of its (mfg_id, part_id) when there is one and with None when
\* there is none; an unknown device raises nothing.
C7_Identify ==
    \A t \in Tasks :
        (call[t].op = "identify" /\ pc[t] = "done") =>
            /\ exc[t] \in {NoError} \cup TransportErrors
            /\ Returned(t) =>
                LET idcode == result[t].idcode
                    known == {d \in KnownDevices :
                                d.mfg_id = idcode.mfg_id /\ d.part_id = idcode.part_id}
                IN  /\ result[t].tag = "identify"
                    /\ idcode = DR_IDCODE_from_bitarray(Last(ops[t]).ret)
                    /\ known = {} => result[t].device = None
                    /\ \A d \in known : result[t].device = d.name

\* An IDCODE of the known manufacturer and an unknown part.
C7_Witness ==
    /\ call[1].op = "identify" /\ Returned(1)
    /\ result[1].idcode.mfg_id = 600 /\ result[1].idcode.part_id = 3
    /\ result[1].device = None

\* C8: a read() or write() whose space is none of memory, core, aux has ended
\* with an assertion failure and has issued no transport operation.
C8_InvalidSpace ==
    \A t \in Tasks :
        (call[t].op \in {"read", "write"} /\ call[t].space \notin Spaces) =>
            /\ ops[t] = <<>>
            /\ pc[t] = "done"
            /\ exc[t] = "AssertionError"
            /\ result[t] = NoResult

C8_Witness ==
    /\ call[1].op = "read" /\ call[1].space = "io"
    /\ pc[1] = "done" /\ exc[1] = "AssertionError" /\ ops[1] = <<>>

\* C9: a read/write call shifts at most one opcode, right after selecting
\* IR=TXN_COMMAND, and exactly one once it is past its command phase; the
\* opcode is the one of the table for (operation, space).
C9_Commands(log) == {i \in DOMAIN log : log[i].op = "write_dr" /\ log[i].code # "-"}

C9_PastCommand(t) ==
    pc[t] \in {"wait_txn_write_ir", "wait_txn_read_dr", "read_write_ir_data",
               "read_read_dr_data"}
    \/ (pc[t] = "done" /\ \E i \in DOMAIN ops[t] : ops[t][i].code = "IR_STATUS")

C9_Opcode ==
    \A t \in Tasks :
        (call[t].op \in {"read", "write"}) =>
            LET log == ops[t]
                cmds == C9_Commands(log)
            IN  /\ Cardinality(cmds) <= 1
                /\ C9_PastCommand(t) => Cardinality(cmds) = 1
                /\ \A i \in cmds :
                    /\ i > 1 /\ log[i - 1] = write_ir("IR_TXN_COMMAND", NoError)
                    /\ log[i].code = OpcodeTable(call[t].op, call[t].space)
                    /\ log[i].code # "-"

C9_Witness ==
    /\ call[1].op = "write" /\ call[1].space = "core"
    /\ pc[1] = "wait_txn_read_dr"
    /\ ops[1][6] = write_dr_const("DR_TXN_COMMAND_WRITE_CORE", NoError)

\* C10: a transport operation that raised is the last operation of its call,
\* and the call has ended with that very exception and no value.
C10_TransportError ==
    \A t \in Tasks :
        \A i \in DOMAIN ops[t] :
            ops[t][i].err # NoError =>
                /\ i = Len(ops[t])
                /\ pc[t] = "done"
                /\ exc[t] = ops[t][i].err
                /\ result[t] = NoResult

\* The DATA read of a read() is cancelled.
C10_Witness ==
    /\ call[1].op = "read" /\ pc[1] = "done" /\ exc[1] = "CancelledError"
    /\ Last(ops[1]).op = "read_dr" /\ Last(ops[1]).width = 32
    /\ Last(ops[1]).err = "CancelledError"


\* C11: identify() issues IR=IDCODE and then one 32-bit DR read and nothing
\* else: no other IR selection, no STATUS poll, and it never ends with the
\* transaction-failure error.
C11_IdentifySequence ==
    \A t \in Tasks :
        (call[t].op = "identify") =>
            LET log == ops[t]
                n == Len(log)
            IN  /\ n <= 2
                /\ n >= 1 => log[1].op = "write_ir" /\ log[1].code = "IR_IDCODE"
                /\ n = 2 => /\ Ok(log[1])
                            /\ log[2].op = "read_dr" /\ log[2].width = 32
                /\ pc[t] \in {"identify_write_ir", "identify_read_dr", "done"}
                /\ Returned(t) => n = 2 /\ Ok(log[2])
                /\ exc[t] # TransactionFailed
                /\ ~overflow[t]

C11_Witness ==
    /\ call[1].op = "identify" /\ Returned(1)
    /\ Len(ops[1]) = 2
    /\ result[1].device = "ARC6xx"


\* C12: the engine takes no lock: a caller can start a call while the call
\* of another caller is in flight, and a call in flight can always take its
\* next step.  So calls interleave on the port, and the witness is reached:
\* a read() whose 32-bit DATA read was shifted while the instruction on the
\* port was the IR=STATUS that the other caller's write() had selected.
C12_NoLock ==
    \A t \in Tasks :
        /\ pc[t] \in {"idle", "done"} => ENABLED identify(t)
        /\ pc[t] \notin {"idle", "done"} => ENABLED Step(t)

C12_Witness ==
    /\ call[1].op = "read" /\ Returned(1)
    /\ call[2].op = "write" /\ pc[2] = "wait_txn_read_dr"
    /\ Last(ops[1]).op = "read_dr" /\ Last(ops[1]).width = 32
    /\ under[1] = [code |-> "IR_STATUS", by |-> 2]


\* C13: a read/write call moves through IDLE -> ADDRESS_SENT -> COMMAND_SENT
\* -> POLLING and from POLLING to DATA_PHASE (read), DONE (write) or FAILED
\* (FL seen), one state at a time and never back; DATA_PHASE is entered by
\* read only, FAILED from POLLING only, and DONE and FAILED end the call.  A
\* read stays in DATA_PHASE when it returns.  The one way out of the machine
\* is an exception that is not the transaction failure (ABORTED): one that
\* the transport raised, or the assertion on the space before IDLE is left.
C13_Phase(t) ==
    IF call[t].op \notin {"read", "write"} THEN "-"
    ELSE IF pc[t] \in {"read_write_ir_address", "read_write_dr_address",
                       "write_write_ir_address", "write_write_dr_address"}
        THEN "IDLE"
    ELSE IF pc[t] \in {"read_write_ir_txn_command", "read_write_dr_txn_command",
                       "write_write_ir_data", "write_write_dr_data",
                       "write_write_ir_txn_command", "write_write_dr_txn_command"}
        THEN "ADDRESS_SENT"
    ELSE IF pc[t] = "wait_txn_write_ir" THEN "COMMAND_SENT"
    ELSE IF pc[t] = "wait_txn_read_dr" THEN "POLLING"
    ELSE IF pc[t] \in {"read_write_ir_data", "read_read_dr_data"} THEN "DATA_PHASE"
    ELSE IF exc[t] = TransactionFailed THEN "FAILED"
    ELSE IF exc[t] # NoError THEN "ABORTED"
    ELSE IF call[t].op = "read" THEN "DATA_PHASE"
    ELSE "DONE"

C13_Edges ==
    {<<"IDLE", "ADDRESS_SENT">>, <<"ADDRESS_SENT", "COMMAND_SENT">>,
     <<"COMMAND_SENT", "POLLING">>, <<"POLLING", "DATA_PHASE">>,
     <<"POLLING", "DONE">>, <<"POLLING", "FAILED">>}

C13_Moves(t) ==
    LET a == C13_Phase(t)
        b == C13_Phase(t)'
    IN  IF pc[t] \in {"idle", "done"}
        THEN \* nothing moves after the end of a call, until the next call starts
             \/ UNCHANGED <<pc[t], call[t], exc[t], result[t], ops[t]>>
             \/ /\ ops'[t] = <<>>
                /\ b \in {"-", "IDLE", "ABORTED"}
                /\ b = "ABORTED" => exc'[t] = "AssertionError"
        ELSE /\ \/ a = b
                \/ <<a, b>> \in C13_Edges
                \/ b = "ABORTED" /\ exc'[t] \in TransportErrors
             /\ call'[t] = call[t]
             /\ b = "DATA_PHASE" => call[t].op = "read"
             /\ b = "DONE" => call[t].op = "write"

C13_StateMachine == [][\A t \in Tasks : C13_Moves(t)]_vars

\* A read that failed on its second poll.
C13_Witness ==
    /\ call[1].op = "read" /\ C13_Phase(1) = "FAILED"
    /\ NPolls(ops[1]) = 2


\* C14: decoding an encoded register gives the fields back, for IDCODE,
\* ADDRESS and DATA; so the 32 bits read() and write() shift out after
\* IR=ADDRESS decode to the address argument, and the 32 bits write() shifts
\* out after IR=DATA decode to the data argument.
C14_IdcodeFields ==
    [present : {0, 1}, mfg_id : {0, 600, 2047}, part_id : {0, 2, 65535},
     version : {0, 7, 15}]

C14_Codec ==
    /\ \A w \in 1..CodecWidth : \A n \in 0..(2^w - 1) :
            Len(ToBits(n, w)) = w /\ FromBits(ToBits(n, w)) = n
    /\ \A a \in AddressArgs \cup {0} :
            DR_ADDRESS_from_bitarray(DR_ADDRESS_to_bitarray(a)).Address = a
    /\ \A d \in DataArgs \cup {0, 2147483647} :
            DR_DATA_from_bitarray(DR_DATA_to_bitarray(d)).Data = d
    /\ \A f \in C14_IdcodeFields :
            /\ Len(DR_IDCODE_to_bitarray(f)) = 32
            /\ DR_IDCODE_from_bitarray(DR_IDCODE_to_bitarray(f)) = f

C14_RoundTrip ==
    /\ (\A t \in Tasks : pc[t] = "idle") => C14_Codec
    /\ \A t \in Tasks :
        LET log == ops[t]
        IN  /\ (call[t].op \in {"read", "write"} /\ Len(log) >= 2) =>
                    /\ log[2].op = "write_dr" /\ Len(log[2].bits) = 32
                    /\ DR_ADDRESS_from_bitarray(log[2].bits).Address = call[t].address
            /\ (call[t].op = "write" /\ Len(log) >= 4) =>
                    /\ log[4].op = "write_dr" /\ Len(log[4].bits) = 32
                    /\ DR_DATA_from_bitarray(log[4].bits).Data = call[t].data
            /\ (call[t].op = "identify" /\ Returned(t)) =>
                    DR_IDCODE_to_bitarray(result[t].idcode) = Last(log).ret

C14_Witness ==
    /\ call[1].op = "write" /\ call[1].data = 2023406814
    /\ call[1].address = 2147483647
    /\ pc[1] = "write_write_ir_txn_command"
    /\ Len(ops[1]) = 4


\* C15: a read or write call selects IR_STATUS once, before its first poll;
\* every later poll directly follows a poll, and a step that stays in the
\* poll loop issues one read_dr(4) and no IR selection.
C15_StatusSelections(log) ==
    {i \in DOMAIN log : log[i].op = "write_ir" /\ log[i].code = "IR_STATUS"}

C15_Log(t) ==
    LET log == ops[t]
        polls == PollIndexes(log)
    IN  call[t].op \in {"read", "write"} =>
            /\ Cardinality(C15_StatusSelections(log)) <= 1
            /\ polls # {} => Cardinality(C15_StatusSelections(log)) = 1
            /\ \A i \in polls :
                /\ i > 1
                /\ \/ log[i - 1] = write_ir("IR_STATUS", NoError)
                   \/ IsPoll(log[i - 1]) /\ NotReady(log[i - 1])
            /\ pc[t] = "wait_txn_read_dr" => C15_StatusSelections(log) # {}

C15_Poll(t) ==
    (pc[t] = "wait_txn_read_dr" /\ pc'[t] = "wait_txn_read_dr") =>
        /\ ir' = ir
        /\ IF overflow'[t]
           THEN ops'[t] = ops[t]
           ELSE /\ Len(ops'[t]) = Len(ops[t]) + 1
                /\ SubSeq(ops'[t], 1, Len(ops[t])) = ops[t]
                /\ IsPoll(Last(ops'[t]))

C15_SelectsOnce == [][\A t \in Tasks : C15_Log(t)' /\ C15_Poll(t)]_vars

C15_Witness ==
    /\ call[1].op = "read" /\ Returned(1)
    /\ NPolls(ops[1]) = 3
    /\ Cardinality(C15_StatusSelections(ops[1])) = 1


\* C16: a read() is at or past its data phase (IR_DATA selected, the DATA
\* register read, or data returned) only if the call made at least one
\* status poll and the most recent one answered RD=1 and FL=0.
C16_DataPhase(t) ==
    /\ call[t].op = "read"
    /\ \/ pc[t] \in {"read_write_ir_data", "read_read_dr_data"}
       \/ \E i \in DOMAIN ops[t] :
            \/ ops[t][i].op = "write_ir" /\ ops[t][i].code = "IR_DATA"
            \/ ops[t][i].op = "read_dr" /\ ops[t][i].width = 32
       \/ result[t].tag = "read"

C16_PolledReady ==
    \A t \in Tasks :
        C16_DataPhase(t) =>
            LET log == ops[t]
                polls == PollIndexes(log)
            IN  /\ polls # {}
                /\ status[t].RD = 1 /\ status[t].FL = 0
                /\ ~overflow[t] =>
                    LET last == CHOOSE i \in polls : \A j \in polls : j <= i
                    IN  /\ Ready(log[last])
                        /\ \A i \in polls \ {last} : NotReady(log[i])
                        /\ \A i \in (last + 1)..Len(log) :
                            \/ log[i].op = "write_ir" /\ log[i].code = "IR_DATA"
                            \/ log[i].op = "read_dr" /\ log[i].width = 32

C16_Witness ==
    /\ call[1].op = "read" /\ pc[1] = "read_read_dr_data"
    /\ NPolls(ops[1]) = 2
    /\ NotReady(ops[1][6]) /\ Ready(ops[1][7])
    /\ ir.code = "IR_DATA"


\* C17: a status poll that answers RD=1 together with FL=1 ends the read or
\* write with the transaction-failure error: it is the last transport
\* operation of the call, and nothing is returned.
C17_Both(e) == IsPoll(e) /\ Ok(e) /\ e.ret[3] = 1 /\ e.ret[2] = 1

C17_Log(t) ==
    \A i \in DOMAIN ops[t] :
        (call[t].op \in {"read", "write"} /\ C17_Both(ops[t][i])) =>
            /\ i = Len(ops[t])
            /\ pc[t] = "done"
            /\ exc[t] = TransactionFailed
            /\ result[t] = NoResult

C17_Poll(t) ==
    (pc[t] = "wait_txn_read_dr" /\ status'[t].RD = 1 /\ status'[t].FL = 1) =>
        /\ pc'[t] = "done"
        /\ exc'[t] = TransactionFailed
        /\ result'[t] = NoResult

C17_FailureFirst == [][\A t \in Tasks : C17_Log(t)' /\ C17_Poll(t)]_vars

C17_Witness ==
    /\ call[1].op = "read" /\ pc[1] = "done"
    /\ NPolls(ops[1]) = 2
    /\ Last(ops[1]) = read_dr(4, <<0, 1, 1, 0>>, NoError)
    /\ exc[1] = TransactionFailed /\ result[1] = NoResult


\* C18: where a call stands, what it raised or returned, and every transport
\* operation it issued are functions of the call's arguments and of the
\* transport's answers during that call; whatever earlier calls left behind
\* plays no part.  The call starts from its first IR selection and enters
\* the poll loop with a fresh, not-ready status.
C18_Plan(c) ==
    IF c.op = "identify" THEN <<"identify_write_ir", "identify_read_dr">>
    ELSE IF c.op = "read"
    THEN <<"read_write_ir_address", "read_write_dr_address",
           "read_write_ir_txn_command", "read_write_dr_txn_command",
           "wait_txn_write_ir">>
    ELSE <<"write_write_ir_address", "write_write_dr_address",
           "write_write_ir_data", "write_write_dr_data",
           "write_write_ir_txn_command", "write_write_dr_txn_command",
           "wait_txn_write_ir">>

C18_At(p, e, r) == [pc |-> p, exc |-> e, result |-> r]

\* Where the arguments c and the answers in log put the call.
C18_Expected(c, log) ==
    LET n == Len(log)
        plan == C18_Plan(c)
    IN  IF c.op \in {"read", "write"} /\ OpcodeTable(c.op, c.space) = "-"
        THEN C18_At("done", "AssertionError", NoResult)
        ELSE IF n = 0 THEN C18_At(plan[1], NoError, NoResult)
        ELSE IF ~Ok(log[n]) THEN C18_At("done", log[n].err, NoResult)
        ELSE IF n < Len(plan) THEN C18_At(plan[n + 1], NoError, NoResult)
        ELSE IF c.op = "identify"
        THEN LET idcode == DR_IDCODE_from_bitarray(log[n].ret)
             IN  C18_At("done", NoError,
                        [NoResult EXCEPT !.tag = "identify", !.idcode = idcode,
                            !.device = devices(idcode.mfg_id, idcode.part_id)])
        ELSE IF n = Len(plan) THEN C18_At("wait_txn_read_dr", NoError, NoResult)
        ELSE IF Failed(log[n]) THEN C18_At("done", TransactionFailed, NoResult)
        ELSE IF NotReady(log[n]) THEN C18_At("wait_txn_read_dr", NoError, NoResult)
        ELSE IF Ready(log[n])
        THEN C18_At(IF c.op = "read" THEN "read_write_ir_data" ELSE "done",
                    NoError, NoResult)
        ELSE IF log[n].op = "write_ir"
        THEN C18_At("read_read_dr_data", NoError, NoResult)
        ELSE C18_At("done", NoError,
                    [NoResult EXCEPT !.tag = "read", !.Data = FromBits(log[n].ret)])

C18_Request(e) == [op |-> e.op, code |-> e.code, bits |-> e.bits, width |-> e.width]

\* The transport operation issued at position p of a call with arguments c.
C18_Issue(c, p) ==
    CASE p = "identify_write_ir" -> write_ir("IR_IDCODE", NoError)
      [] p \in {"identify_read_dr", "read_read_dr_data"} -> read_dr(32, <<>>, NoError)
      [] p \in {"read_write_ir_address", "write_write_ir_address"} ->
            write_ir("IR_ADDRESS", NoError)
      [] p \in {"read_write_dr_address", "write_write_dr_address"} ->
            write_dr(ToBits(c.address, 32), NoError)
      [] p \in {"read_write_ir_txn_command", "write_write_ir_txn_command"} ->
            write_ir("IR_TXN_COMMAND", NoError)
      [] p \in {"read_write_dr_txn_command", "write_write_dr_txn_command"} ->
            write_dr_const(OpcodeTable(c.op, c.space), NoError)
      [] p \in {"read_write_ir_data", "write_write_ir_data"} ->
            write_ir("IR_DATA", NoError)
      [] p = "write_write_dr_data" -> write_dr(ToBits(c.data, 32), NoError)
      [] p = "wait_txn_write_ir" -> write_ir("IR_STATUS", NoError)
      [] p = "wait_txn_read_dr" -> read_dr(4, <<>>, NoError)
      [] OTHER -> Op("-", "-", <<>>, 0, <<>>, NoError)

C18_NoPersistentState ==
    \A t \in Tasks :
        (call[t].op # "-" /\ ~overflow[t]) =>
            LET c == call[t]
                log == ops[t]
            IN  /\ C18_At(pc[t], exc[t], result[t]) = C18_Expected(c, log)
                /\ \A n \in DOMAIN log :
                     C18_Request(log[n]) =
                        C18_Request(C18_Issue(c, C18_Expected(c, SubSeq(log, 1, n - 1)).pc))
                /\ (pc[t] = "wait_txn_read_dr" /\ NPolls(log) = 0) =>
                        status[t] = DR_STATUS

\* A read under way after a call that failed: the status that call decoded
\* (FL=1, RD=1) is still lying about when the read is to start waiting.
C18_Witness ==
    /\ call[1].op = "read" /\ pc[1] = "wait_txn_write_ir"
    /\ Len(ops[1]) = 4
    /\ status[1].FL = 1 /\ status[1].RD = 1


\* C19: when identify() returns a none device, interact() raises the applet
\* error that carries the IDCODE read and is over: the REPL is not entered and
\* no read or write is issued.  The REPL is entered, and reads and writes
\* are issued, only with a known device identified.
C19_Known == {d.name : d \in KnownDevices}

C19_State ==
    /\ applet.state = "repl" => applet.device \in C19_Known
    /\ call[1].op \in {"read", "write"} =>
            applet.state \in {"repl", "returned"} /\ applet.device \in C19_Known
    /\ applet.error = UnknownDevice =>
            /\ applet.state = "raised"
            /\ call[1].op = "identify" /\ Returned(1)
            /\ result[1].device = None
            /\ applet.idcode = Last(ops[1]).ret
            /\ Len(ops[1]) = 2

C19_Moves ==
    /\ (applet.state = "identify" /\ Returned(1) /\ result[1].device = None) =>
            (applet'.state = "raised" /\ applet'.error = UnknownDevice)
    /\ applet'.state = "repl" =>
            \/ applet.state = "repl"
            \/ applet.state = "identify" /\ Returned(1) /\ result[1].device \in C19_Known
    /\ applet.state = "raised" => UNCHANGED vars

C19_UnknownDeviceAborts == [][C19_State' /\ C19_Moves]_vars

C19_Witness ==
    /\ applet.state = "raised" /\ applet.error = UnknownDevice
    /\ applet.operation = "repl"
    /\ DR_IDCODE_from_bitarray(applet.idcode) =
            [present |-> 1, mfg_id |-> 600, part_id |-> 3, version |-> 0]

====
